---- MODULE Spec2Model ----
(***************************************************************************)
(* Model of the GeoPackage updater (allineamento_geopackage_def.py):       *)
(* GeoPackageUpdaterAlgorithm.processAlgorithm and the functions it calls, *)
(* normalize_value, compare_features, analyze_differences and              *)
(* update_with_qgis_api_only.                                              *)
(*                                                                         *)
(* A text is a sequence of one-character strings, so that str.strip and    *)
(* str.upper are computed and not assumed.  A value is a tagged record:    *)
(* Python None, a str, a number, or a value of another type together with  *)
(* the text str() gives for it (QGIS's NULL is such a value: str(NULL) is  *)
(* 'NULL').                                                                *)
(***************************************************************************)
EXTENDS Integers, Sequences, FiniteSets, TLC

VARIABLES
    pc,                 \* position in processAlgorithm / update_with_qgis_api_only
    valid,              \* whether the configuration passes lines 131-143
    preview_only,       \* parameter PREVIEW_ONLY
    source_kind,        \* what shared_layer.source() names
    shared_layer,       \* [disk, view, editing]: storage, in-memory content, edit session
    user_layer,         \* the user layer's features
    new_features,       \* result of analyze_differences
    modified_features,  \* result of analyze_differences
    report,             \* the report of processAlgorithm, a sequence of parts
    update_report,      \* the value update_with_qgis_api_only returns
    report_lines,       \* local of update_with_qgis_api_only
    idx,                \* loop position in the add / modify loops
    backups,            \* contents of the backup files written
    hist,               \* history: what the run did (read by the properties only)
    norm                \* state of the normalize_value driver

vars == <<pc, valid, preview_only, source_kind, shared_layer, user_layer,
          new_features, modified_features, report, update_report,
          report_lines, idx, backups, hist, norm>>

runVars == <<pc, valid, preview_only, source_kind, shared_layer, user_layer,
             new_features, modified_features, report, update_report,
             report_lines, idx, backups, hist>>

----------------------------------------------------------------------------
(* Bounds *)

MaxShared == 2      \* features in the shared layer's storage
MaxUser == 2        \* features in the user layer
MaxLen == 5         \* length of the texts given to normalize_value

----------------------------------------------------------------------------
(* Texts *)

Chars(s) == {s[i] : i \in 1..Len(s)}

IsSpace(c) == c = " "

Upper(c) ==
    CASE c = "n" -> "N"
      [] c = "u" -> "U"
      [] c = "l" -> "L"
      [] c = "a" -> "A"
      [] OTHER -> c

\* str.upper()
upper(s) == [i \in 1..Len(s) |-> Upper(s[i])]

RECURSIVE lstrip(_)
lstrip(s) == IF s # <<>> /\ IsSpace(Head(s)) THEN lstrip(Tail(s)) ELSE s

RECURSIVE rstrip(_)
rstrip(s) ==
    IF s # <<>> /\ IsSpace(s[Len(s)]) THEN rstrip(SubSeq(s, 1, Len(s) - 1)) ELSE s

\* str.strip()
strip(s) == rstrip(lstrip(s))

NULL_TEXT == <<"N", "U", "L", "L">>

Digit == <<"0", "1", "2", "3", "4", "5", "6", "7", "8", "9">>

RECURSIVE NatStr(_)
NatStr(n) == IF n < 10 THEN <<Digit[n + 1]>> ELSE NatStr(n \div 10) \o <<Digit[(n % 10) + 1]>>

----------------------------------------------------------------------------
(* Values *)

None == [t |-> "none", s |-> <<>>, n |-> 0]
Str(s) == [t |-> "str", s |-> s, n |-> 0]
Num(n) == [t |-> "num", s |-> <<>>, n |-> n]
Other(s) == [t |-> "other", s |-> s, n |-> 0]

\* qgis.core.NULL: not None, not a str, not a number; str(NULL) == 'NULL'
QNULL == Other(NULL_TEXT)

\* str(value)
str(v) ==
    CASE v.t = "none" -> <<"N", "o", "n", "e">>
      [] v.t = "str" -> v.s
      [] v.t = "num" -> NatStr(v.n)
      [] OTHER -> v.s

normalize_value(value) ==
    CASE value.t = "none" -> None
      [] value.t = "str" ->
            IF value.s = <<>> \/ upper(value.s) = NULL_TEXT
            THEN None
            ELSE Str(strip(value.s))
      [] value.t = "num" -> value
      [] OTHER ->
            LET str_value == strip(str(value))
            IN  IF str_value = <<>> \/ upper(str_value) = NULL_TEXT
                THEN None
                ELSE Str(str_value)

----------------------------------------------------------------------------
(* Features and layers *)

KeyField == "fuuid"

\* QgsFields of the two layers: "area" exists in the shared layer only,
\* "note" in the user layer only (schema drift)
SharedFields == <<"fuuid", "name", "area">>
UserFields == <<"fuuid", "name", "note">>

Names(fields) == {fields[i] : i \in 1..Len(fields)}

\* QgsGeometry values: the null geometry, two valid ones, an invalid one
NoGeom == "none"
Geoms == {"none", "g1", "g2", "bad"}
GeomTruthy(g) == g # NoGeom                  \* bool(QgsGeometry): not null
isGeosValid(g) == g \in {"g1", "g2"}
GeomEquals(g, h) == g = h

SharedFeature(k, nm, g) ==
    [attrs |-> [f \in Names(SharedFields) |->
                   CASE f = "fuuid" -> k [] f = "name" -> nm [] OTHER -> Num(1)],
     geom |-> g]

UserFeature(k, nm, g) ==
    [attrs |-> [f \in Names(UserFields) |->
                   CASE f = "fuuid" -> k [] f = "name" -> nm [] OTHER -> Str(<<"a">>)],
     geom |-> g]

\* str(feature[key_field]), lines 178 and 185
KeyText(feature) == str(feature.attrs[KeyField])

KeyTexts(features) == {KeyText(features[i]) : i \in 1..Len(features)}

\* the dict built by lines 177-179 and 184-186: a later feature with the same
\* key text replaces an earlier one
FeatureIndex(features) ==
    [k \in KeyTexts(features) |->
        LET last == CHOOSE i \in 1..Len(features) :
                       /\ KeyText(features[i]) = k
                       /\ \A j \in (i + 1)..Len(features) : KeyText(features[j]) # k
        IN  features[last]]

----------------------------------------------------------------------------
(* compare_features *)

\* the fields compare_features and the modify loop look at: those of the
\* shared layer, in order, except the key field, that the user layer has too
CommonFields ==
    SelectSeq(SharedFields, LAMBDA f : f # KeyField /\ f \in Names(UserFields))

FieldDifferent(shared_value, user_value) ==
    normalize_value(shared_value) # normalize_value(user_value)

GeometryDifferent(shared_geom, user_geom) ==
    /\ GeomTruthy(shared_geom) /\ GeomTruthy(user_geom)
    /\ isGeosValid(shared_geom) /\ isGeosValid(user_geom)
    /\ ~GeomEquals(shared_geom, user_geom)

compare_features(shared_feat, user_feat) ==
    LET changed == SelectSeq(CommonFields,
                      LAMBDA f : FieldDifferent(shared_feat.attrs[f], user_feat.attrs[f]))
        fieldDiffs == [i \in 1..Len(changed) |->
                         [field |-> changed[i],
                          old |-> shared_feat.attrs[changed[i]],
                          new |-> user_feat.attrs[changed[i]]]]
    IN  IF GeometryDifferent(shared_feat.geom, user_feat.geom)
        THEN Append(fieldDiffs, [field |-> "geometry", old |-> None, new |-> None])
        ELSE fieldDiffs

----------------------------------------------------------------------------
(* analyze_differences *)

\* the orders in which a Python set may be iterated
Orders(S) ==
    {o \in [1..Cardinality(S) -> S] : \A i, j \in DOMAIN o : i # j => o[i] # o[j]}

new_keys_all_user(shared_features, user_features) == DOMAIN user_features

\* line 191
new_keys(shared_features, user_features) ==
    DOMAIN user_features \ DOMAIN shared_features

\* line 196
common_keys(shared_features, user_features) ==
    DOMAIN shared_features \cap DOMAIN user_features

\* lines 200-210, for the keys in the order keyOrder
ModifiedOf(shared_features, user_features, keyOrder) ==
    LET differing == SelectSeq(keyOrder,
            LAMBDA k : compare_features(shared_features[k], user_features[k]) # <<>>)
    IN  [i \in 1..Len(differing) |->
            [feature |-> user_features[differing[i]],
             key |-> differing[i],
             differences |-> compare_features(shared_features[differing[i]],
                                              user_features[differing[i]])]]

\* the (new_features, modified_features) pairs analyze_differences can return
\* for the features the two layers yield
analyze_differences(shared_feats, user_feats) ==
    LET shared_features == FeatureIndex(shared_feats)
        user_features == FeatureIndex(user_feats)
    IN  {[new |-> [i \in 1..Len(no) |-> user_features[no[i]]],
          modified |-> ModifiedOf(shared_features, user_features, co)] :
            no \in Orders(new_keys(shared_features, user_features)),
            co \in Orders(common_keys(shared_features, user_features))}

----------------------------------------------------------------------------
(* The vector layer: storage, edit buffer and edit session *)

Layer(disk, view, editing) == [disk |-> disk, view |-> view, editing |-> editing]

\* QgsVectorLayer.commitChanges() returning True: the edit buffer is written
\* to the storage and the session ends
commitChanges(layer) == Layer(layer.view, layer.view, FALSE)

rollBack_as_commit(layer) == Layer(layer.view, layer.view, FALSE)

rollBack_forgotten(layer) == layer

\* QgsVectorLayer.rollBack(): the edit buffer is dropped and the session ends;
\* nothing happens on a layer that is not being edited
rollBack(layer) ==
    IF layer.editing THEN Layer(layer.disk, layer.disk, FALSE) ELSE layer

\* QgsVectorLayer.startEditing() returning True
startEditing(layer) == Layer(layer.disk, layer.view, TRUE)

copy2_truncated(content) == <<>>

\* shutil.copy2(file_path, backup_path): the content of the backup file
copy2(content) == content

\* line 337: os.path.exists(file_path) and file_path.endswith('.gpkg')
IsGpkgFile(kind) == kind = "gpkg"

----------------------------------------------------------------------------
(* update_with_qgis_api_only: the features it builds *)

\* lines 360-370: a feature of the shared schema with the fields both layers
\* have and the geometry, if the user feature carries one
NewFeat(feature) ==
    [attrs |-> [f \in Names(SharedFields) |->
                   IF f \in Names(UserFields) THEN feature.attrs[f] ELSE QNULL],
     geom |-> IF GeomTruthy(feature.geom) THEN feature.geom ELSE NoGeom]

Quote == "'"
OrSep == <<"'", " ", "O", "R", " ", "'">>
EqSep == <<"'", "=", "'">>

\* The filter expression of line 387, "<key_field>" = '<key_value>', evaluated
\* on a feature.  key_value is put between the quotes as it is: a text with no
\* quote is compared with the field (a NULL field equals nothing); a text
\* a' OR 'b'='c reads as  "<key_field>" = 'a' OR 'b'='c' ; any other text
\* with a quote is no expression and selects nothing.
FilterMatches(key_value, feature) ==
    LET fieldIs(a) == /\ feature.attrs[KeyField].t = "str"
                      /\ feature.attrs[KeyField].s = a
        n == Len(key_value)
    IN  IF Quote \notin Chars(key_value)
        THEN fieldIs(key_value)
        ELSE \E p \in 0..n, q \in 0..n :
                /\ p + Len(OrSep) <= q
                /\ q + Len(EqSep) <= n
                /\ SubSeq(key_value, p + 1, p + Len(OrSep)) = OrSep
                /\ SubSeq(key_value, q + 1, q + Len(EqSep)) = EqSep
                /\ Quote \notin Chars(SubSeq(key_value, 1, p))
                /\ Quote \notin Chars(SubSeq(key_value, p + Len(OrSep) + 1, q))
                /\ Quote \notin Chars(SubSeq(key_value, q + Len(EqSep) + 1, n))
                /\ \/ fieldIs(SubSeq(key_value, 1, p))
                   \/ SubSeq(key_value, p + Len(OrSep) + 1, q)
                        = SubSeq(key_value, q + Len(EqSep) + 1, n)

\* lines 387-388: the ids of the features the request yields, in layer order
existing_features(view, key_value) ==
    {i \in 1..Len(view) : FilterMatches(key_value, view[i])}

\* lines 395-406 on the feature found
UpdatedFeat(existing_feat, new_feature) ==
    [attrs |-> [f \in Names(SharedFields) |->
                   IF f # KeyField /\ f \in Names(UserFields)
                   THEN new_feature.attrs[f]
                   ELSE existing_feat.attrs[f]],
     geom |-> IF GeomTruthy(new_feature.geom)
              THEN new_feature.geom
              ELSE existing_feat.geom]

\* lines 383-406 for one entry of modified_features
ModifyView(view, mod_feat_data) ==
    LET found == existing_features(view, mod_feat_data.key)
    IN  IF found = {}
        THEN view
        ELSE LET fid == CHOOSE i \in found : \A j \in found : i <= j
             IN  [view EXCEPT ![fid] = UpdatedFeat(view[fid], mod_feat_data.feature)]

ShouldUpdate_ignoring_preview(preview, new, modified) ==
    new # <<>> \/ modified # <<>>

\* line 155
ShouldUpdate(preview, new, modified) ==
    ~preview /\ (new # <<>> \/ modified # <<>>)

----------------------------------------------------------------------------
(* Reports *)

Part(kind, lines, errors) == [kind |-> kind, lines |-> lines, errors |-> errors]

AnalysisPart == Part("analysis", <<>>, <<>>)

\* what storage.commitErrors() may hold after a failed commit
CommitErrorLists == {<<"e1">>, <<"e1", "e2">>}

\* line 422
error_msg(errors) == Part("commit_errors", <<>>, errors)

----------------------------------------------------------------------------
(* Inputs *)

SeqsUpTo(S, n) == UNION {[1..k -> S] : k \in 0..n}

InjText == <<"'", " ", "O", "R", " ", "'", "'", "=", "'">>

\* the features of the layers of Spec, as <<key, name, geometry>>: keys A
\* and B, names and geometries that differ, a feature with no geometry
RunFeatures ==
    {<<Str(<<"A">>), Str(<<>>), "g1">>,
     <<Str(<<"A">>), Str(<<"a">>), "g2">>,
     <<Str(<<"B">>), Str(<<"a">>), NoGeom>>}

\* the features of the layers of SpecKeys: a NULL key, a key holding an
\* apostrophe, a key holding quotes that make an expression
KeyFeatures ==
    {<<k, nm, NoGeom>> :
        k \in {Str(<<"A">>), QNULL, Str(<<"O", "'", "B">>), Str(InjText)},
        nm \in {Str(<<>>), Str(<<"a">>)}}

\* the features of the layers of SpecClassify: key texts that collide
\* (str(NULL) and 'NULL'), values that normalize alike, geometries
ClassifyFeatures ==
    {<<Str(<<"A">>), Str(<<>>), "g1">>,
     <<Str(<<"A">>), QNULL, "g2">>,
     <<Str(<<"A">>), Str(<<"a">>), "bad">>,
     <<QNULL, Str(<<>>), "g1">>,
     <<QNULL, QNULL, "g1">>,
     <<Str(NULL_TEXT), Str(<<"a">>), "g1">>,
     <<Str(NULL_TEXT), Str(<<>>), NoGeom>>}

\* the shared layers and the user layers with features among T
SharedLayers(T) ==
    SeqsUpTo({SharedFeature(t[1], t[2], t[3]) : t \in T}, MaxShared)

UserLayers(T) ==
    SeqsUpTo({UserFeature(t[1], t[2], t[3]) : t \in T}, MaxUser)

\* what a run may find pending in the shared layer's edit buffer
LeftoverFeature == SharedFeature(Str(<<"L">>), Str(<<"a">>), "g1")

EntryStates == {"clean", "pending_add", "pending_change"}

EntryLayer(disk, entry) ==
    CASE entry = "clean" -> Layer(disk, disk, FALSE)
      [] entry = "pending_add" -> Layer(disk, Append(disk, LeftoverFeature), TRUE)
      [] OTHER ->
            Layer(disk,
                  IF disk = <<>> THEN disk
                  ELSE [disk EXCEPT ![1].attrs["name"] = Str(<<"l">>)],
                  TRUE)

NoNorm == [step |-> "off", value |-> None, once |-> None, twice |-> None]

NoHist(layer, user) ==
    [called |-> FALSE, layer0 |-> layer, begin |-> <<>>, opened |-> FALSE,
     addFailed |-> FALSE, precommit |-> "none", committed |-> FALSE,
     pending |-> <<>>, errors |-> <<>>,
     init_layer |-> layer, init_user |-> user]

InitRun(layer, user) ==
    /\ pc = "start"
    /\ shared_layer = layer
    /\ user_layer = user
    /\ new_features = <<>>
    /\ modified_features = <<>>
    /\ report = <<>>
    /\ update_report = Part("none", <<>>, <<>>)
    /\ report_lines = <<>>
    /\ idx = 0
    /\ backups = {}
    /\ hist = NoHist(layer, user)

Init ==
    /\ norm = NoNorm
    /\ \/ /\ valid = FALSE
          /\ preview_only = TRUE
          /\ source_kind = "gpkg"
          /\ InitRun(Layer(<<>>, <<>>, FALSE), <<>>)
       \/ /\ valid = TRUE
          /\ preview_only \in BOOLEAN
          /\ source_kind \in {"gpkg", "other"}
          /\ \E disk \in SharedLayers(RunFeatures),
                user \in UserLayers(RunFeatures),
                entry \in EntryStates :
                InitRun(EntryLayer(disk, entry), user)

\* runs that update a clean GeoPackage layer, over KeyFeatures
InitKeys ==
    /\ norm = NoNorm
    /\ valid = TRUE
    /\ preview_only = FALSE
    /\ source_kind = "gpkg"
    /\ \E disk \in SharedLayers(KeyFeatures),
          user \in UserLayers(KeyFeatures) :
          InitRun(EntryLayer(disk, "clean"), user)

\* analyze_differences alone, over ClassifyFeatures
InitClassify ==
    /\ norm = NoNorm
    /\ valid = TRUE
    /\ preview_only = TRUE
    /\ source_kind = "gpkg"
    /\ \E disk \in SharedLayers(ClassifyFeatures),
          user \in UserLayers(ClassifyFeatures) :
          InitRun(EntryLayer(disk, "clean"), user)

NormChars == {" ", "N", "u", "L", "a"}

NormInputs ==
    {None, Num(0), Num(1)}
        \cup {Str(s) : s \in SeqsUpTo(NormChars, MaxLen)}
        \cup {Other(s) : s \in SeqsUpTo(NormChars, MaxLen)}

\* normalize_value applied to a value and then to its result
InitNorm ==
    /\ valid = FALSE
    /\ preview_only = TRUE
    /\ source_kind = "gpkg"
    /\ InitRun(Layer(<<>>, <<>>, FALSE), <<>>)
    /\ \E v \in NormInputs :
          norm = [step |-> "input", value |-> v, once |-> None, twice |-> None]

----------------------------------------------------------------------------
(* processAlgorithm *)

\* lines 131-143
Validate ==
    /\ pc = "start"
    /\ pc' = IF valid THEN "analyze" ELSE "raised"
    /\ UNCHANGED <<valid, preview_only, source_kind, shared_layer, user_layer,
                   new_features, modified_features, report, update_report,
                   report_lines, idx, backups, hist, norm>>

\* lines 148-152: shared_layer.getFeatures() yields the in-memory content
Analyze ==
    /\ pc = "analyze"
    /\ \E r \in analyze_differences(shared_layer.view, user_layer) :
          /\ new_features' = r.new
          /\ modified_features' = r.modified
    /\ report' = <<AnalysisPart>>
    /\ pc' = "branch"
    /\ UNCHANGED <<valid, preview_only, source_kind, shared_layer, user_layer,
                   update_report, report_lines, idx, backups, hist, norm>>

\* lines 155 and 164 when the update is not made
SkipUpdate ==
    /\ pc = "branch"
    /\ ~ShouldUpdate(preview_only, new_features, modified_features)
    /\ pc' = "done"
    /\ UNCHANGED <<valid, preview_only, source_kind, shared_layer, user_layer,
                   new_features, modified_features, report, update_report,
                   report_lines, idx, backups, hist, norm>>

\* lines 155-160: update_with_qgis_api_only is called
CallUpdate ==
    /\ pc = "branch"
    /\ ShouldUpdate(preview_only, new_features, modified_features)
    /\ pc' = "backup"
    /\ hist' = [hist EXCEPT !.called = TRUE, !.layer0 = shared_layer]
    /\ UNCHANGED <<valid, preview_only, source_kind, shared_layer, user_layer,
                   new_features, modified_features, report, update_report,
                   report_lines, idx, backups, norm>>

\* lines 162-164
Return ==
    /\ pc = "return"
    /\ report' = Append(report, update_report)
    /\ pc' = "done"
    /\ UNCHANGED <<valid, preview_only, source_kind, shared_layer, user_layer,
                   new_features, modified_features, update_report,
                   report_lines, idx, backups, hist, norm>>

----------------------------------------------------------------------------
(* update_with_qgis_api_only *)

\* the statements inside the inner try of lines 353-425
InnerTry == {"add", "modify", "commit", "reload", "rollback_commit"}

Handler_no_outer_try(at) ==
    IF at \in InnerTry THEN "rollback_error" ELSE "propagate"

\* where an exception raised at a statement is handled: the except of line
\* 427 for the inner try, the except of line 432 for everything else
\* (the handler of line 427 included)
Handler(at) ==
    IF at \in InnerTry THEN "rollback_error" ELSE "general_error"

\* whether the statement at pc calls out of the function
CallsOut ==
    CASE pc = "backup" -> IsGpkgFile(source_kind)
      [] pc = "precommit" -> shared_layer.editing
      [] pc = "add" -> idx <= Len(new_features)
      [] pc = "modify" -> idx <= Len(modified_features)
      [] pc \in {"begin", "commit", "reload", "rollback_commit", "rollback_error"} -> TRUE
      [] OTHER -> FALSE

\* a call raises: lines 427-430 or 432-433 take over
Raise ==
    /\ CallsOut
    /\ LET h == Handler(pc)
       IN  CASE h = "rollback_error" ->
                    /\ pc' = "rollback_error"
                    /\ UNCHANGED update_report
             [] h = "general_error" ->
                    /\ pc' = "return"
                    /\ update_report' = Part("general_error", <<>>, <<>>)
             [] OTHER ->
                    /\ pc' = "raised"
                    /\ UNCHANGED update_report
    /\ UNCHANGED <<valid, preview_only, source_kind, shared_layer,
                   user_layer, new_features, modified_features, report,
                   report_lines, idx, backups, hist, norm>>

\* lines 331-340
Backup ==
    /\ pc = "backup"
    /\ backups' = IF IsGpkgFile(source_kind)
                  THEN backups \cup {copy2(shared_layer.disk)}
                  ELSE backups
    /\ pc' = "precommit"
    /\ UNCHANGED <<valid, preview_only, source_kind, shared_layer,
                   user_layer, new_features, modified_features, report,
                   update_report, report_lines, idx, hist, norm>>

\* lines 343-344: the result of commitChanges() is not looked at
EnsureNotEditing ==
    /\ pc = "precommit"
    /\ IF shared_layer.editing
       THEN \E ok \in BOOLEAN :
               /\ shared_layer' = IF ok THEN commitChanges(shared_layer) ELSE shared_layer
               /\ hist' = [hist EXCEPT !.precommit = IF ok THEN "ok" ELSE "failed"]
       ELSE UNCHANGED <<shared_layer, hist>>
    /\ pc' = "begin"
    /\ UNCHANGED <<valid, preview_only, source_kind, user_layer,
                   new_features, modified_features, report, update_report,
                   report_lines, idx, backups, norm>>

\* lines 347-351: startEditing() is False on a layer that is being edited
\* already, and may be False on any layer (a read-only provider)
StartEditing ==
    /\ pc = "begin"
    /\ \E ok \in (IF shared_layer.editing THEN {FALSE} ELSE BOOLEAN) :
          IF ok
          THEN /\ shared_layer' = startEditing(shared_layer)
               /\ hist' = [hist EXCEPT !.opened = TRUE, !.begin = shared_layer.view]
               /\ report_lines' = <<>>
               /\ idx' = 1
               /\ pc' = "add"
               /\ UNCHANGED update_report
          ELSE /\ update_report' = Part("cannot_edit", <<>>, <<>>)
               /\ pc' = "return"
               /\ UNCHANGED <<shared_layer, hist, report_lines, idx>>
    /\ UNCHANGED <<valid, preview_only, source_kind, user_layer,
                   new_features, modified_features, report, backups, norm>>

\* lines 358-374, one feature: addFeature() may be False, which is only logged
AddFeature ==
    /\ pc = "add"
    /\ idx <= Len(new_features)
    /\ \E ok \in BOOLEAN :
          /\ shared_layer' =
                IF ok
                THEN [shared_layer EXCEPT
                        !.view = Append(@, NewFeat(new_features[idx]))]
                ELSE shared_layer
          /\ hist' = [hist EXCEPT !.addFailed = @ \/ ~ok]
    /\ idx' = idx + 1
    /\ UNCHANGED <<pc, valid, preview_only, source_kind, user_layer,
                   new_features, modified_features, report, update_report,
                   report_lines, backups, norm>>

\* lines 355 and 376
AddDone ==
    /\ pc = "add"
    /\ idx > Len(new_features)
    /\ report_lines' = IF new_features # <<>>
                       THEN Append(report_lines, "added")
                       ELSE report_lines
    /\ idx' = 1
    /\ pc' = "modify"
    /\ UNCHANGED <<valid, preview_only, source_kind, shared_layer,
                   user_layer, new_features, modified_features, report,
                   update_report, backups, hist, norm>>

\* lines 382-406, one entry
ModifyFeature ==
    /\ pc = "modify"
    /\ idx <= Len(modified_features)
    /\ shared_layer' = [shared_layer EXCEPT
                          !.view = ModifyView(@, modified_features[idx])]
    /\ idx' = idx + 1
    /\ UNCHANGED <<pc, valid, preview_only, source_kind, user_layer,
                   new_features, modified_features, report, update_report,
                   report_lines, backups, hist, norm>>

\* lines 379 and 408
ModifyDone ==
    /\ pc = "modify"
    /\ idx > Len(modified_features)
    /\ report_lines' = IF modified_features # <<>>
                       THEN Append(report_lines, "updated")
                       ELSE report_lines
    /\ pc' = "commit"
    /\ UNCHANGED <<valid, preview_only, source_kind, shared_layer,
                   user_layer, new_features, modified_features, report,
                   update_report, idx, backups, hist, norm>>

\* lines 412-413: commitChanges() is True
CommitOk ==
    /\ pc = "commit"
    /\ shared_layer' = commitChanges(shared_layer)
    /\ report_lines' = Append(report_lines, "success")
    /\ hist' = [hist EXCEPT !.committed = TRUE, !.pending = shared_layer.view]
    /\ pc' = "reload"
    /\ UNCHANGED <<valid, preview_only, source_kind, user_layer,
                   new_features, modified_features, report, update_report,
                   idx, backups, norm>>

\* lines 412, 421-423: commitChanges() is False
CommitFails ==
    /\ pc = "commit"
    /\ \E errors \in CommitErrorLists :
          /\ hist' = [hist EXCEPT !.errors = errors, !.pending = shared_layer.view]
          /\ update_report' = error_msg(errors)
    /\ pc' = "rollback_commit"
    /\ UNCHANGED <<valid, preview_only, source_kind, shared_layer,
                   user_layer, new_features, modified_features, report,
                   report_lines, idx, backups, norm>>

\* lines 416-418
Reload ==
    /\ pc = "reload"
    /\ shared_layer' = [shared_layer EXCEPT !.view = shared_layer.disk]
    /\ update_report' = Part("success", report_lines, <<>>)
    /\ pc' = "return"
    /\ UNCHANGED <<valid, preview_only, source_kind, user_layer,
                   new_features, modified_features, report, report_lines,
                   idx, backups, hist, norm>>

\* lines 424-425
RollbackCommit ==
    /\ pc = "rollback_commit"
    /\ shared_layer' = rollBack(shared_layer)
    /\ pc' = "return"
    /\ UNCHANGED <<valid, preview_only, source_kind, user_layer,
                   new_features, modified_features, report, update_report,
                   report_lines, idx, backups, hist, norm>>

\* lines 427-430
RollbackError ==
    /\ pc = "rollback_error"
    /\ shared_layer' = rollBack(shared_layer)
    /\ update_report' = Part("update_error", <<>>, <<>>)
    /\ pc' = "return"
    /\ UNCHANGED <<valid, preview_only, source_kind, user_layer,
                   new_features, modified_features, report, report_lines,
                   idx, backups, hist, norm>>

Next ==
    \/ Validate \/ Analyze \/ SkipUpdate \/ CallUpdate \/ Return
    \/ Raise \/ Backup \/ EnsureNotEditing \/ StartEditing
    \/ AddFeature \/ AddDone \/ ModifyFeature \/ ModifyDone
    \/ CommitOk \/ CommitFails \/ Reload \/ RollbackCommit \/ RollbackError

Spec == Init /\ [][Next]_vars

SpecKeys == InitKeys /\ [][Next]_vars

NextClassify == Validate \/ Analyze

SpecClassify == InitClassify /\ [][NextClassify]_vars

NormalizeOnce ==
    /\ norm.step = "input"
    /\ norm' = [norm EXCEPT !.once = normalize_value(norm.value), !.step = "once"]
    /\ UNCHANGED runVars

NormalizeTwice ==
    /\ norm.step = "once"
    /\ norm' = [norm EXCEPT !.twice = normalize_value(norm.once), !.step = "twice"]
    /\ UNCHANGED runVars

NextNorm == NormalizeOnce \/ NormalizeTwice

SpecNorm == InitNorm /\ [][NextNorm]_vars

----------------------------------------------------------------------------
(* Properties *)

UpdateReturned == pc = "done" /\ hist.called

Count(seq, P(_)) == Cardinality({i \in 1..Len(seq) : P(seq[i])})

\* C1 as stated: when update_with_qgis_api_only has returned, the storage of
\* the shared layer holds either what this call committed or exactly what it
\* held when the call was made, whatever the state of the layer at the call.
C1_AllOrNothing ==
    UpdateReturned =>
        \/ hist.committed /\ shared_layer.disk = hist.pending
        \/ ~hist.committed /\ shared_layer.disk = hist.layer0.disk

\* C1 amended: when update_with_qgis_api_only has returned, the storage holds
\* what this call committed, or what it held when the call was made, or, when
\* the layer was being edited at the call and the commit of line 344
\* succeeded, what it held at the call with the pending edits of that
\* earlier session written to it.
C1_AllOrNothingOrLeftover ==
    UpdateReturned =>
        \/ hist.committed /\ shared_layer.disk = hist.pending
        \/ ~hist.committed /\ shared_layer.disk = hist.layer0.disk
        \/ /\ ~hist.committed
           /\ hist.layer0.editing
           /\ hist.precommit = "ok"
           /\ shared_layer.disk = hist.layer0.view

C1_Witness ==
    /\ UpdateReturned
    /\ ~hist.committed
    /\ hist.precommit = "ok"
    /\ hist.opened
    /\ shared_layer.disk = hist.layer0.view
    /\ shared_layer.disk # hist.layer0.disk

\* C2: when update_with_qgis_api_only returns after it reached line 343 with
\* the layer being edited, or after it began a session itself, the shared
\* layer is not left in an edit session with pending changes.
C2_SessionClosedOnReturn ==
    UpdateReturned /\ (hist.opened \/ hist.precommit # "none") =>
        ~(shared_layer.editing /\ shared_layer.view # shared_layer.disk)

UpdateKinds == {"success", "cannot_edit", "commit_errors", "update_error", "general_error"}

\* C3: once the configuration is valid nothing is raised to the caller: the
\* run is never stuck before its end, update_with_qgis_api_only returns a
\* text that says success or failure, and processAlgorithm returns the
\* analysis report with that text appended.
C3_FaultsReturnedAsText ==
    /\ pc = "raised" => ~valid
    /\ valid /\ pc # "done" => ENABLED Next
    /\ pc = "return" => update_report.kind \in UpdateKinds
    /\ pc = "done" =>
          report = IF hist.called
                   THEN <<AnalysisPart, update_report>>
                   ELSE <<AnalysisPart>>
    /\ UpdateReturned =>
          /\ update_report.kind \in UpdateKinds
          /\ update_report.kind = "success" => hist.committed

\* the rollBack() of line 429 raised and line 433 returned
C3_Witness ==
    /\ UpdateReturned
    /\ hist.opened
    /\ shared_layer.editing
    /\ update_report.kind = "general_error"
    /\ report = <<AnalysisPart, update_report>>

\* C4: in preview mode, or with nothing new and nothing modified, the update
\* is not called: no backup, no edit session, the shared layer as it was;
\* and no run changes the user layer.
C4_PreviewLeavesLayersAlone ==
    /\ user_layer = hist.init_user
    /\ /\ valid
       /\ \/ preview_only
          \/ /\ pc \notin {"start", "analyze"}
             /\ new_features = <<>>
             /\ modified_features = <<>>
       => /\ ~hist.called
          /\ pc \in {"start", "analyze", "branch", "done"}
          /\ backups = {}
          /\ shared_layer = hist.init_layer

C4_Witness ==
    /\ pc = "done"
    /\ preview_only
    /\ new_features # <<>>
    /\ modified_features # <<>>
    /\ shared_layer = hist.init_layer

C6_NormalizeIdempotent ==
    norm.step = "twice" => norm.twice = norm.once

\* C7: after analyze_differences every key of the user index is in exactly
\* one of new (once; absent from the shared index), modified (once; in both
\* and compare_features is not empty) and unchanged (in both and
\* compare_features is empty), and the two lists hold nothing else.
C7_ClassificationIsPartition ==
    pc = "branch" =>
        LET shared_features == FeatureIndex(shared_layer.view)
            user_features == FeatureIndex(user_layer)
            inNew(k) == Count(new_features, LAMBDA f : KeyText(f) = k)
            inMod(k) == Count(modified_features, LAMBDA m : m.key = k)
        IN  /\ \A k \in DOMAIN user_features :
                 \/ /\ k \notin DOMAIN shared_features
                    /\ inNew(k) = 1 /\ inMod(k) = 0
                 \/ /\ k \in DOMAIN shared_features
                    /\ compare_features(shared_features[k], user_features[k]) # <<>>
                    /\ inNew(k) = 0 /\ inMod(k) = 1
                 \/ /\ k \in DOMAIN shared_features
                    /\ compare_features(shared_features[k], user_features[k]) = <<>>
                    /\ inNew(k) = 0 /\ inMod(k) = 0
            /\ \A i \in 1..Len(new_features) :
                 /\ KeyText(new_features[i]) \in DOMAIN user_features
                 /\ new_features[i] = user_features[KeyText(new_features[i])]
            /\ \A i \in 1..Len(modified_features) :
                 /\ modified_features[i].key \in DOMAIN user_features
                 /\ modified_features[i].feature = user_features[modified_features[i].key]

\* two user features with one key text, the later one differing from the
\* shared feature, beside a shared feature whose key text collides
C7_Witness ==
    /\ pc = "branch"
    /\ Len(user_layer) = 2
    /\ Cardinality(KeyTexts(user_layer)) = 1
    /\ Len(shared_layer.view) = 2
    /\ Len(modified_features) = 1
    /\ new_features = <<>>

\* C8: a shared feature whose key text is not in the user index is in
\* neither list and, when the run has ended and no edit session is left
\* open, still there with its fields and geometry; no feature is removed and
\* no key field is changed.
C8_SharedOnlyUntouched ==
    pc = "done" /\ ~shared_layer.editing =>
        LET before == hist.init_layer.view
            after == shared_layer.view
        IN  /\ Len(after) >= Len(before)
            /\ \A i \in 1..Len(before) :
                 /\ after[i].attrs[KeyField] = before[i].attrs[KeyField]
                 /\ KeyText(before[i]) \notin KeyTexts(user_layer) =>
                       /\ after[i] = before[i]
                       /\ \A j \in 1..Len(new_features) :
                             KeyText(new_features[j]) # KeyText(before[i])
                       /\ \A j \in 1..Len(modified_features) :
                             modified_features[j].key # KeyText(before[i])

UniqueKeys(features) == Cardinality(KeyTexts(features)) = Len(features)

\* C10: after a run that reports success with every addFeature() True, on a
\* shared layer whose key texts were unique, analyze_differences on the
\* updated shared layer and the same user layer finds nothing new and
\* nothing modified.
C10_UpdateConverges ==
    /\ UpdateReturned
    /\ update_report.kind = "success"
    /\ ~hist.addFailed
    /\ UniqueKeys(hist.layer0.view)
    => \A r \in analyze_differences(shared_layer.view, user_layer) :
          r.new = <<>> /\ r.modified = <<>>

====
